---------------------------- MODULE Spec2Model ----------------------------
(***************************************************************************)
(* The face-recognition attendance system.                                 *)
(*                                                                         *)
(* The attendance ledger: app.mark_attendance (src/app.py),                *)
(* main.markAttendance (src/main.py) and the attendance marking block of   *)
(* src/test_simulation.py, all working on the one file Attendance.csv.     *)
(* The matcher: the recognition of a face against the gallery, on the four *)
(* paths that do it.  The gallery: registration, load_encodings and its    *)
(* cache, the copy the FaceRecognitionProcessor keeps.  Liveness: the      *)
(* blink test and the marking of recognised faces, frame by frame, in the  *)
(* camera loop of main.py and in FaceRecognitionProcessor.transform.       *)
(*                                                                         *)
(* Text is modelled as a sequence of characters.  A character is a TLA+    *)
(* string: "," and "\n" and " " are themselves; a letter of a name is      *)
(* itself; a strftime result ("2023-10-27", "09:00:00") and a header word  *)
(* ("Name") is one unit, since it holds no comma, newline or blank and is  *)
(* only ever compared whole.                                               *)
(***************************************************************************)
EXTENDS Integers, Sequences, FiniteSets, TLC

\* ------------------------------------------------------------ bounds
\* Calls of the marking function in one behaviour.
MaxCalls == 2
\* Sessions that may call the marking function (concurrently in SpecConc).
NumProcs == 2

\* ------------------------------------------------------------ inputs
\* The calendar days and the times of day the clock may show, as indexes
\* into DateNames and TimeNames.
Days == {1, 2}
Tods == {1, 2}

\* ------------------------------------------------------------ text
LF == "\n"
COMMA == ","
SPACE == " "

\* Characters Python's str.strip() removes.
Whitespace == {LF, SPACE}

\* The header row both ledger functions write into a new file.
Header == <<"Name", COMMA, "Time", COMMA, "Date">>

\* The columns of the DataFrame test_simulation.py starts from.
Columns == << <<"Name">>, <<"Time">>, <<"Date">> >>

\* strftime('%Y-%m-%d') and strftime('%H:%M:%S') of the days and times the
\* clock may show.
DateNames == <<"2023-10-27", "2023-10-28">>
TimeNames == <<"09:00:00", "14:30:00">>

Timestamps == [day : Days, tod : Tods]

today_str(now) == DateNames[now.day]
time_str(now) == TimeNames[now.tod]

\* Names handed to the marking function.  PlainNames hold letters (and a
\* blank, as test_simulation.py makes of an underscore); Names adds one that
\* holds a comma, as a file "A,B.jpg" in Images_Attendance yields.
PlainNames == { <<"A">>, <<"B">>, <<"A", SPACE, "B">> }
Names == { <<"A">>, <<"B">>, <<"A", COMMA, "B">> }

\* Python's s.split(sep): the pieces of s between the separators.
RECURSIVE SplitFrom(_, _, _, _)
SplitFrom(s, sep, i, cur) ==
    IF i > Len(s) THEN <<cur>>
    ELSE IF s[i] = sep THEN <<cur>> \o SplitFrom(s, sep, i + 1, <<>>)
    ELSE SplitFrom(s, sep, i + 1, Append(cur, s[i]))

split(s, sep) == SplitFrom(s, sep, 1, <<>>)

\* The lines of a text, without their line ends.
TextLines(f) == split(f, LF)

\* Python's f.readlines(): the lines of the text, each keeping its "\n"; no
\* line for the empty rest after a final "\n".
RECURSIVE ReadLinesFrom(_, _, _)
ReadLinesFrom(s, i, cur) ==
    IF i > Len(s) THEN (IF cur = <<>> THEN <<>> ELSE <<cur>>)
    ELSE IF s[i] = LF THEN <<Append(cur, LF)>> \o ReadLinesFrom(s, i + 1, <<>>)
    ELSE ReadLinesFrom(s, i + 1, Append(cur, s[i]))

readlines(s) == ReadLinesFrom(s, 1, <<>>)

\* Python's s.strip(): s without its leading and trailing whitespace.
RECURSIVE lstrip(_)
lstrip(s) ==
    IF s # <<>> /\ Head(s) \in Whitespace THEN lstrip(Tail(s)) ELSE s

RECURSIVE rstrip(_)
rstrip(s) ==
    IF s # <<>> /\ s[Len(s)] \in Whitespace
    THEN rstrip(SubSeq(s, 1, Len(s) - 1)) ELSE s

strip(s) == rstrip(lstrip(s))

\* f'\n{name},{time_str},{today_str}'
FormatEntry(name, now) ==
    <<LF>> \o name \o <<COMMA, time_str(now), COMMA, today_str(now)>>

\* ------------------------------------------------------------ state
VARIABLES
    exists,     \* os.path.exists('Attendance.csv')
    file,       \* the text of Attendance.csv
    proc,       \* per session: where its call of the marking function stands
    hist,       \* the calls that have ended, in the order they ended
    corrupted,  \* the malformed lines put into the file from outside
    mt,         \* one recognition: the path, the gallery, the probe, the result
    reg,        \* Images_Attendance, the cache of load_encodings, the check-ins
    prc,        \* the FaceRecognitionProcessor of app.py (None before it is built)
    loop,       \* the globals of main.py's camera loop
    clock,      \* time.time(), in seconds
    marks,      \* the calls of the marking function made from a video frame
    eq          \* app.mark_attendance and main.markAttendance side by side

vars == <<exists, file, proc, hist, corrupted, mt, reg, prc, loop, clock,
          marks, eq>>

\* The variables the ledger functions do not touch.
beyondLedger == <<mt, reg, prc, loop, clock, marks, eq>>

Procs == 1..NumProcs

IdleProc ==
    [pc |-> "idle", variant |-> "none", name |-> <<>>,
     now |-> [day |-> 1, tod |-> 1], lines |-> <<>>,
     started |-> 0, preExists |-> FALSE, preFile |-> <<>>,
     preCorrupted |-> <<>>]

\* started: how many calls had ended when this one began; preExists, preFile
\* and preCorrupted: the store, and the malformed lines in it, when it began.

\* Calls begun and not ended.
Active == {q \in Procs : proc[q].pc # "idle"}

\* ------------------------------------------------------------ the scan
\* (mutant) the duplicate test without the date: a name once marked counts as
\* marked on every day.
LineMatchesNameOnly(line, name, today) ==
    LET entry == split(line, COMMA) IN
    /\ Len(entry) >= 3
    /\ entry[1] = name

\* The duplicate test of one line:
\*   entry = line.split(',')
\*   len(entry) >= 3 and entry[0] == name and entry[2].strip() == today_str
LineMatches(line, name, today) ==
    LET entry == split(line, COMMA) IN
    /\ Len(entry) >= 3
    /\ entry[1] = name
    /\ strip(entry[3]) = <<today>>

\* (mutant) the scan gives up at the first line it cannot take apart.
AlreadyLoggedUntilBadLine(lines, name, today) ==
    \E i \in 1..Len(lines) :
        /\ LineMatches(lines[i], name, today)
        /\ \A k \in 1..(i - 1) : Len(split(lines[k], COMMA)) >= 3

\* for line in lines: ... return "Already Marked"
AlreadyLogged(lines, name, today) ==
    \E i \in 1..Len(lines) : LineMatches(lines[i], name, today)

\* ------------------------------------------------------------ results
\* What each function returns, and the exception app.mark_attendance and
\* main.markAttendance let escape (no return value).
RetMarked(variant) ==
    CASE variant = "app" -> "Marked"
      [] variant = "main" -> "MARKED"
      [] OTHER -> "Attendance Marked"

RetAlready(variant) ==
    CASE variant = "app" -> "Already Marked"
      [] variant = "main" -> "ALREADY_LOGGED"
      [] OTHER -> "Attendance already marked for today."

\* The ledger contract's result a return value stands for.
MarkResult(ret) ==
    CASE ret \in {"Marked", "MARKED", "Attendance Marked"} -> "Marked"
      [] ret \in {"Already Marked", "ALREADY_LOGGED",
                  "Attendance already marked for today."} -> "AlreadyMarked"
      [] ret = "ERROR" -> "WriteError"
      [] OTHER -> "Raised"

\* The call of session p ends with ret (a return value, or "RAISED" for an
\* exception that leaves the function); fault tells whether a write failed.
Finish(p, ret, fault, ex, f) ==
    /\ hist' = Append(hist,
          [variant |-> proc[p].variant, name |-> proc[p].name,
           now |-> proc[p].now, ret |-> ret, fault |-> fault,
           started |-> proc[p].started,
           preExists |-> proc[p].preExists, preFile |-> proc[p].preFile,
           preCorrupted |-> proc[p].preCorrupted,
           postExists |-> ex, postFile |-> f])
    /\ proc' = [proc EXCEPT ![p] = IdleProc]

\* ------------------------------------------------------------ app.py, main.py
\* mark_attendance(name) / markAttendance(name) is entered: now = datetime.now()
Enter(p, variant, name, now) ==
    /\ proc[p].pc = "idle"
    /\ Len(hist) + Cardinality(Active) < MaxCalls
    /\ proc' = [proc EXCEPT ![p] =
          [pc |-> "exists", variant |-> variant, name |-> name, now |-> now,
           lines |-> <<>>, started |-> Len(hist),
           preExists |-> exists, preFile |-> file,
           preCorrupted |-> corrupted]]
    /\ UNCHANGED <<exists, file, hist, corrupted>>

\* if not os.path.exists(filename):
CheckExists(p) ==
    /\ proc[p].pc = "exists"
    /\ proc[p].variant \in {"app", "main"}
    /\ proc' = [proc EXCEPT ![p].pc = IF exists THEN "read" ELSE "create"]
    /\ UNCHANGED <<exists, file, hist, corrupted>>

\* (mutant) the file is created without its header row.
CreateFileNoHeader(p) ==
    /\ proc[p].pc = "create"
    /\ exists' = TRUE
    /\ file' = <<>>
    /\ proc' = [proc EXCEPT ![p].pc = "read"]
    /\ UNCHANGED <<hist, corrupted>>

\* with open(filename, 'w') as f: f.write("Name,Time,Date")
\* 'w' truncates whatever the file holds by now.
CreateFile(p) ==
    /\ proc[p].pc = "create"
    /\ exists' = TRUE
    /\ file' = Header
    /\ proc' = [proc EXCEPT ![p].pc = "read"]
    /\ UNCHANGED <<hist, corrupted>>

\* The same open(filename, 'w') failing: neither function catches it.
CreateFails(p) ==
    /\ proc[p].pc = "create"
    /\ Finish(p, "RAISED", TRUE, exists, file)
    /\ UNCHANGED <<exists, file, corrupted>>

\* (mutant) the entry is written before the scan returns: a duplicate is
\* reported and stored all the same.
ReadAndScanWriteFirst(p) ==
    /\ proc[p].pc = "read"
    /\ LET lines == IF exists THEN readlines(file) ELSE <<>> IN
       IF AlreadyLogged(lines, proc[p].name, today_str(proc[p].now))
       THEN /\ file' = file \o FormatEntry(proc[p].name, proc[p].now)
            /\ Finish(p, RetAlready(proc[p].variant), FALSE, exists, file')
       ELSE /\ proc' = [proc EXCEPT ![p].pc = "append", ![p].lines = lines]
            /\ UNCHANGED <<hist, file>>
    /\ UNCHANGED <<exists, corrupted>>

\* try: lines = f.readlines()  except FileNotFoundError: lines = []
\* and the scan for name and today_str.
ReadAndScan(p) ==
    /\ proc[p].pc = "read"
    /\ LET lines == IF exists THEN readlines(file) ELSE <<>> IN
       IF AlreadyLogged(lines, proc[p].name, today_str(proc[p].now))
       THEN Finish(p, RetAlready(proc[p].variant), FALSE, exists, file)
       ELSE /\ proc' = [proc EXCEPT ![p].pc = "append", ![p].lines = lines]
            /\ UNCHANGED hist
    /\ UNCHANGED <<exists, file, corrupted>>

\* with open(filename, 'a') as f: f.write(f'\n{name},{time_str},{today_str}')
AppendEntry(p) ==
    /\ proc[p].pc = "append"
    /\ exists' = TRUE
    /\ file' = (IF exists THEN file ELSE <<>>)
                  \o FormatEntry(proc[p].name, proc[p].now)
    /\ Finish(p, RetMarked(proc[p].variant), FALSE, TRUE, file')
    /\ UNCHANGED corrupted

\* What the function does when the append fails: app.py has no handler
\* (the exception escapes), main.py returns "ERROR".
AppendFailure(variant) ==
    IF variant = "main" THEN "ERROR" ELSE "RAISED"

\* The same open(filename, 'a') failing.
AppendFails(p) ==
    /\ proc[p].pc = "append"
    /\ Finish(p, AppendFailure(proc[p].variant), TRUE, exists, file)
    /\ UNCHANGED <<exists, file, corrupted>>

\* ------------------------------------------------------------ test_simulation.py
\* The rows of a DataFrame are kept as their three fields, in column order.
\* pandas is not part of the repository: read_csv and to_csv are modelled
\* for fields that hold no comma, quote or line end and that pandas reads
\* back as the text they were written as, which is what the specifications
\* that run this variant store (SimRowsWellFormed).
JoinFields(row) == row[1] \o <<COMMA>> \o row[2] \o <<COMMA>> \o row[3]

RECURSIVE NonBlank(_)
NonBlank(ls) ==
    IF ls = <<>> THEN <<>>
    ELSE IF Head(ls) = <<>> THEN NonBlank(Tail(ls))
    ELSE <<Head(ls)>> \o NonBlank(Tail(ls))

\* pd.read_csv(FILE_DB): the first line names the columns, every later line
\* that is not blank is a row.
read_csv(f) ==
    LET ls == NonBlank(split(f, LF)) IN
    [k \in 1..(Len(ls) - 1) |-> split(ls[k + 1], COMMA)]

RECURSIVE WriteRows(_)
WriteRows(df) ==
    IF df = <<>> THEN <<>>
    ELSE JoinFields(Head(df)) \o <<LF>> \o WriteRows(Tail(df))

\* df.to_csv(FILE_DB, index=False): the column names, then one line per row,
\* every line ended by "\n".
to_csv(df) == JoinFields(Columns) \o <<LF>> \o WriteRows(df)

\* ((df['Name'] == name) & (df['Date'] == date_str)).any(), False for an
\* empty frame.
is_marked(df, name, date) ==
    /\ df # <<>>
    /\ \E k \in 1..Len(df) : df[k][1] = name /\ df[k][3] = <<date>>

\* The script reaches its marking block for the recognised name.
EnterSim(p, name) == Enter(p, "sim", name, IdleProc.now)

\* if not os.path.exists(FILE_DB): df = pd.DataFrame(columns=[...])
\* else: df = pd.read_csv(FILE_DB);  now = datetime.now();  is_marked = ...
SimLoad(p, now) ==
    /\ proc[p].pc = "exists"
    /\ proc[p].variant = "sim"
    /\ LET df == IF exists THEN read_csv(file) ELSE <<>> IN
       IF is_marked(df, proc[p].name, today_str(now))
       THEN /\ hist' = Append(hist,
                  [variant |-> "sim", name |-> proc[p].name, now |-> now,
                   ret |-> RetAlready("sim"), fault |-> FALSE,
                   started |-> proc[p].started,
                   preExists |-> proc[p].preExists,
                   preFile |-> proc[p].preFile,
                   preCorrupted |-> proc[p].preCorrupted,
                   postExists |-> exists, postFile |-> file])
            /\ proc' = [proc EXCEPT ![p] = IdleProc]
       ELSE /\ proc' = [proc EXCEPT ![p].pc = "write", ![p].now = now,
                                    ![p].lines = df]
            /\ UNCHANGED hist
    /\ UNCHANGED <<exists, file, corrupted>>

\* (mutant) only the new entry is written back, not the rows read.
NewFrameOnlyNew(df, name, now) ==
    <<<<name, <<time_str(now)>>, <<today_str(now)>>>>>>

\* The frame the script writes back: the rows it read, then the new entry.
\*   df = pd.concat([df, new_entry], ignore_index=True)
NewFrame(df, name, now) ==
    Append(df, <<name, <<time_str(now)>>, <<today_str(now)>>>>)

\* df.to_csv(FILE_DB, index=False): the whole file is written anew from the
\* frame read earlier.
SimWrite(p) ==
    /\ proc[p].pc = "write"
    /\ exists' = TRUE
    /\ file' = to_csv(NewFrame(proc[p].lines, proc[p].name, proc[p].now))
    /\ Finish(p, RetMarked("sim"), FALSE, TRUE, file')
    /\ UNCHANGED corrupted

\* ------------------------------------------------------------ specifications
\* No recognition made yet.
NoResult == [kind |-> "none", index |-> 0, name |-> <<>>]

NoProbe ==
    [path |-> "none", names |-> <<>>, faceDis |-> <<>>, res |-> NoResult,
     again |-> NoResult]

\* The ledger before any call: Attendance.csv missing, or holding its header.
LedgerInit ==
    /\ exists \in BOOLEAN
    /\ file = IF exists THEN Header ELSE <<>>
    /\ proc = [p \in Procs |-> IdleProc]
    /\ hist = <<>>
    /\ corrupted = <<>>

\* No profile image, nothing cached, no check-in served.
NoRegistry == [folder |-> {}, cache |-> <<>>, count |-> 0, served |-> <<>>]

\* No FaceRecognitionProcessor built.  frames, closedRun, blinkRun, byBlink
\* and blinkTime are kept for the claims; they are no fields of the class.
NoProcessor ==
    [built |-> FALSE, known |-> <<>>, blink_counter |-> 0,
     liveness_verified |-> FALSE, frames |-> 0, closedRun |-> 0,
     blinkRun |-> 0, byBlink |-> FALSE, blinkTime |-> 0]

\* main.py not started.  frames, closedRun, blinkRun and byBlink are kept
\* for the claims; they are no variables of the program.
NoLoop ==
    [started |-> FALSE, running |-> FALSE, known |-> <<>>, COUNTER |-> 0,
     TOTAL_BLINKS |-> 0, LIVENESS_VERIFIED |-> FALSE, last_blink_time |-> 0,
     last_stranger_save_time |-> 0, last_attendance_status |-> {},
     frames |-> 0, closedRun |-> 0, blinkRun |-> 0, byBlink |-> FALSE]

\* The two ledger functions not yet compared.
NotCompared ==
    [app |-> [exists |-> FALSE, file |-> <<>>],
     main |-> [exists |-> FALSE, file |-> <<>>],
     retApp |-> "none", retMain |-> "none", calls |-> 0, faults |-> {}]

\* Nothing but the ledger functions runs.
BeyondAtRest ==
    /\ mt = NoProbe
    /\ reg = NoRegistry
    /\ prc = NoProcessor
    /\ loop = NoLoop
    /\ clock = 0
    /\ marks = {}
    /\ eq = NotCompared

Init == LedgerInit /\ BeyondAtRest

\* One call begins only when no other is under way.
EnterSeq ==
    \E variant \in {"app", "main"}, name \in Names, now \in Timestamps :
        /\ Active = {}
        /\ Enter(1, variant, name, now)
        /\ UNCHANGED beyondLedger

Step ==
    /\ \E p \in Procs :
        \/ CheckExists(p)
        \/ CreateFile(p)
        \/ ReadAndScan(p)
        \/ AppendEntry(p)
    /\ UNCHANGED beyondLedger

\* A write of the call under way fails (an I/O fault).
FaultStep ==
    /\ \E p \in Procs :
        \/ CreateFails(p)
        \/ AppendFails(p)
    /\ UNCHANGED beyondLedger

Next == EnterSeq \/ Step \/ FaultStep

Spec == Init /\ [][Next]_vars

\* The three ledger writers, one call at a time, on the same file.
EnterVariants ==
    \/ \E variant \in {"app", "main"}, name \in PlainNames,
          now \in Timestamps :
            /\ Active = {}
            /\ Enter(1, variant, name, now)
            /\ UNCHANGED beyondLedger
    \/ \E name \in PlainNames :
            /\ Active = {}
            /\ EnterSim(1, name)
            /\ UNCHANGED beyondLedger

SimStep ==
    /\ \E p \in Procs :
        \/ \E now \in Timestamps : SimLoad(p, now)
        \/ SimWrite(p)
    /\ UNCHANGED beyondLedger

NextVariants == EnterVariants \/ Step \/ SimStep

SpecVariants == Init /\ [][NextVariants]_vars

\* The sessions call concurrently, all on the same day: their steps
\* interleave freely.
ConcNames == { <<"A">>, <<"B">> }
ConcStamps == {t \in Timestamps : t.day = 1}

EnterConc ==
    /\ \E p \in Procs :
        \/ \E variant \in {"app", "main"}, name \in ConcNames,
              now \in ConcStamps : Enter(p, variant, name, now)
        \/ \E name \in ConcNames : EnterSim(p, name)
    /\ UNCHANGED beyondLedger

SimStepConc ==
    /\ \E p \in Procs :
        \/ \E now \in ConcStamps : SimLoad(p, now)
        \/ SimWrite(p)
    /\ UNCHANGED beyondLedger

NextConc == EnterConc \/ Step \/ SimStepConc

SpecConc == Init /\ [][NextConc]_vars

\* The rows test_simulation.py reads all have the three fields its columns
\* name, in the specifications that run it.
SimRowsWellFormed ==
    exists => \A k \in 1..Len(read_csv(file)) : Len(read_csv(file)[k]) = 3

\* ------------------------------------------------------------ a corrupt ledger
\* Lines that are no (name, time, date) record: a blank line, a lone name, a
\* record cut short, a record without its date, a record with fields too
\* many, and noise.
MalformedLines ==
    { <<>>,
      <<"A">>,
      <<"A", COMMA, DateNames[1]>>,
      <<"A", COMMA, TimeNames[1], COMMA>>,
      <<"A", COMMA, "x", COMMA, DateNames[1], COMMA, TimeNames[1]>>,
      <<"#", "#">> }

RECURSIVE JoinLines(_)
JoinLines(ls) ==
    IF Len(ls) = 0 THEN <<>>
    ELSE IF Len(ls) = 1 THEN ls[1]
    ELSE ls[1] \o <<LF>> \o JoinLines(Tail(ls))

\* The lines ls with line l put in after the first k of them.
InsertLine(ls, k, l) ==
    SubSeq(ls, 1, k) \o <<l>> \o SubSeq(ls, k + 1, Len(ls))

\* Something other than the ledger functions stores one malformed line, at
\* any place in the file, while no call is under way.
CorruptLine(l, k) ==
    /\ corrupted = <<>>
    /\ exists
    /\ Active = {}
    /\ k \in 0..Len(TextLines(file))
    /\ file' = JoinLines(InsertLine(TextLines(file), k, l))
    /\ corrupted' = <<l>>
    /\ UNCHANGED <<exists, proc, hist>>

CorruptNames == { <<"A">>, <<"B">> }

CorruptStamps == {t \in Timestamps : t.tod = 1}

EnterCorrupt ==
    \E variant \in {"app", "main"}, name \in CorruptNames,
       now \in CorruptStamps :
        /\ Active = {}
        /\ Enter(1, variant, name, now)
        /\ UNCHANGED beyondLedger

Corrupt ==
    /\ \E l \in MalformedLines, k \in 0..(2 * MaxCalls) : CorruptLine(l, k)
    /\ UNCHANGED beyondLedger

NextCorrupt == EnterCorrupt \/ Step \/ Corrupt

SpecCorrupt == Init /\ [][NextCorrupt]_vars

\* ------------------------------------------------------------ reading the ledger
\* The line a call for name at now writes: name,time,date
EntryLine(name, now) ==
    name \o <<COMMA, time_str(now), COMMA, today_str(now)>>

\* The positions of the records for (name, day) in a text.
RecordsFor(f, name, day) ==
    {i \in 1..Len(TextLines(f)) :
        \E tod \in Tods :
            TextLines(f)[i] = EntryLine(name, [day |-> day, tod |-> tod])}

\* The stored text before and after call i (nothing when the file is missing).
Pre(i) == IF hist[i].preExists THEN hist[i].preFile ELSE <<>>
Post(i) == IF hist[i].postExists THEN hist[i].postFile ELSE <<>>

Calls == 1..Len(hist)

\* ------------------------------------------------------------ claims
\* C1: in every state reached by sequential mark-present calls with arbitrary
\* names and timestamps, from a missing or header-only Attendance.csv, the
\* ledger holds at most one record for any (name, date) pair.
C1_OneRecordPerNameAndDate ==
    \A name \in Names, day \in Days :
        Cardinality(RecordsFor(file, name, day)) <= 1

\* C4: a call at t1 and then a call at t2 >= t1 for the same name on the same
\* day, with no record for that name and day beforehand, return Marked and
\* then AlreadyMarked, and the ledger then holds exactly one record for that
\* name and day, with the time of day of t1.
C4_Idempotent ==
    \A i \in Calls : \A j \in Calls :
        ( /\ j = i + 1
          /\ hist[i].name = hist[j].name
          /\ hist[i].now.day = hist[j].now.day
          /\ hist[i].now.tod <= hist[j].now.tod
          /\ ~hist[i].fault /\ ~hist[j].fault
          /\ RecordsFor(Pre(i), hist[i].name, hist[i].now.day) = {} )
        => /\ MarkResult(hist[i].ret) = "Marked"
           /\ MarkResult(hist[j].ret) = "AlreadyMarked"
           /\ \E k \in 1..Len(TextLines(Post(j))) :
                /\ RecordsFor(Post(j), hist[i].name, hist[i].now.day) = {k}
                /\ TextLines(Post(j))[k] = EntryLine(hist[i].name, hist[i].now)

\* C6: a call whose write fails (the append, or the creation of the file
\* with its header) returns the WriteError value instead of raising, and
\* leaves the store as it was before the call.
C6_WriteFaultReturnsWriteError ==
    \A i \in Calls :
        hist[i].fault =>
            /\ MarkResult(hist[i].ret) = "WriteError"
            /\ hist[i].postExists = hist[i].preExists
            /\ Post(i) = Pre(i)

\* C7: a call that returns AlreadyMarked leaves the stored file as it was
\* before the call.
C7_AlreadyMarkedLeavesStorage ==
    \A i \in Calls :
        MarkResult(hist[i].ret) = "AlreadyMarked" =>
            /\ hist[i].postExists = hist[i].preExists
            /\ hist[i].postFile = hist[i].preFile

C7_Witness ==
    \E i \in Calls :
        /\ MarkResult(hist[i].ret) = "AlreadyMarked"
        /\ RecordsFor(Pre(i), hist[i].name, hist[i].now.day) # {}

\* C8: marking the same name on two different days returns Marked both times
\* and leaves one record for each of the two days; a call returns
\* AlreadyMarked only when a record for its own name and its own day is
\* stored, whatever records of other days there are.
C8_CrossDay ==
    /\ \A i \in Calls : \A j \in Calls :
         ( /\ j = i + 1
           /\ hist[i].name = hist[j].name
           /\ hist[i].now.day # hist[j].now.day
           /\ ~hist[i].fault /\ ~hist[j].fault
           /\ RecordsFor(Pre(i), hist[i].name, hist[i].now.day) = {}
           /\ RecordsFor(Pre(i), hist[j].name, hist[j].now.day) = {} )
         => /\ MarkResult(hist[i].ret) = "Marked"
            /\ MarkResult(hist[j].ret) = "Marked"
            /\ Cardinality(RecordsFor(Post(j), hist[i].name, hist[i].now.day)) = 1
            /\ Cardinality(RecordsFor(Post(j), hist[j].name, hist[j].now.day)) = 1
    /\ \A i \in Calls :
         MarkResult(hist[i].ret) = "AlreadyMarked" =>
            RecordsFor(Pre(i), hist[i].name, hist[i].now.day) # {}

C8_Witness ==
    \E i \in Calls : \E j \in Calls :
        /\ j = i + 1
        /\ hist[i].name = hist[j].name
        /\ hist[i].now.day # hist[j].now.day
        /\ MarkResult(hist[i].ret) = "Marked"
        /\ MarkResult(hist[j].ret) = "Marked"
        /\ RecordsFor(Pre(j), hist[i].name, hist[i].now.day) # {}

\* The records of a text in order: its lines that are not blank, the header
\* row first.
StoredLines(f) == NonBlank(TextLines(f))

IsPrefix(a, b) == Len(a) <= Len(b) /\ SubSeq(b, 1, Len(a)) = a

\* Calls i and j, i ending first, overlapped: j began before i ended.
Concurrent(i, j) == i < j /\ hist[j].started < i

\* The record call i wrote is among the lines of text f.
RecordIn(i, f) ==
    \E k \in 1..Len(TextLines(f)) :
        TextLines(f)[k] = EntryLine(hist[i].name, hist[i].now)

\* C2: concurrent calls of the ledger functions for the same name on the
\* same day, with no record for them beforehand: exactly one returns Marked,
\* the others AlreadyMarked, and exactly one record for that name and day is
\* stored once they have ended.
C2_ConcurrentSameKey ==
    \A i \in Calls : \A j \in Calls :
        ( /\ Concurrent(i, j)
          /\ hist[i].variant \in {"app", "main"}
          /\ hist[j].variant \in {"app", "main"}
          /\ hist[i].name = hist[j].name
          /\ hist[i].now.day = hist[j].now.day
          /\ RecordsFor(Pre(i), hist[i].name, hist[i].now.day) = {}
          /\ RecordsFor(Pre(j), hist[i].name, hist[i].now.day) = {} )
        => /\ {MarkResult(hist[i].ret), MarkResult(hist[j].ret)}
                = {"Marked", "AlreadyMarked"}
           /\ Cardinality(RecordsFor(Post(j), hist[i].name, hist[i].now.day)) = 1

\* C3: for two concurrent calls (same or different names, any variant), once
\* both have ended the record of each call that reported Marked is stored,
\* and so is every record that was stored when either of them began.
C3_NoLostRecord ==
    \A i \in Calls : \A j \in Calls :
        Concurrent(i, j) =>
            /\ MarkResult(hist[i].ret) = "Marked" => RecordIn(i, Post(j))
            /\ MarkResult(hist[j].ret) = "Marked" => RecordIn(j, Post(j))
            /\ \A k \in Calls :
                 (RecordIn(k, Pre(i)) \/ RecordIn(k, Pre(j)))
                    => RecordIn(k, Post(j))

C9_EmptyStore ==
    \A i \in Calls :
        (~hist[i].preExists \/ StoredLines(hist[i].preFile) = <<Header>>)
        => /\ MarkResult(hist[i].ret) = "Marked"
           /\ hist[i].postExists
           /\ StoredLines(hist[i].postFile)
                = <<Header, EntryLine(hist[i].name, hist[i].now)>>

C9_Witness ==
    \E i \in Calls :
        /\ ~hist[i].preExists
        /\ hist[i].variant \in {"app", "main"}
        /\ MarkResult(hist[i].ret) = "Marked"
        /\ hist[i].postFile = Header \o FormatEntry(hist[i].name, hist[i].now)

\* Call i began on a ledger that held the malformed line.
MalformedBefore(i) == hist[i].preCorrupted # <<>>

\* The malformed line does not begin with the name of call i: it is not a
\* record of that name gone wrong.
Unaffected(i) == split(hist[i].preCorrupted[1], COMMA)[1] # hist[i].name

\* C10: with one malformed line anywhere in the ledger, a call for a name
\* the line does not belong to returns AlreadyMarked exactly when a
\* well-formed record for that name and today is stored, and otherwise
\* appends its record and returns Marked; no call is aborted by the line.
C10_MalformedLineSkipped ==
    \A i \in Calls :
        MalformedBefore(i) =>
            /\ MarkResult(hist[i].ret) \in {"Marked", "AlreadyMarked"}
            /\ Unaffected(i) =>
                /\ MarkResult(hist[i].ret) = "AlreadyMarked"
                     <=> RecordsFor(Pre(i), hist[i].name, hist[i].now.day) # {}
                /\ MarkResult(hist[i].ret) = "Marked"
                     => hist[i].postFile
                          = hist[i].preFile
                              \o FormatEntry(hist[i].name, hist[i].now)

\* A duplicate found behind a malformed line of fewer than three fields.
C10_Witness ==
    \E i \in Calls :
        /\ MalformedBefore(i)
        /\ Unaffected(i)
        /\ MarkResult(hist[i].ret) = "AlreadyMarked"
        /\ \E k \in 1..Len(TextLines(Pre(i))) :
            \E m \in 1..(k - 1) :
                /\ k \in RecordsFor(Pre(i), hist[i].name, hist[i].now.day)
                /\ TextLines(Pre(i))[m] = hist[i].preCorrupted[1]
                /\ Len(split(hist[i].preCorrupted[1], COMMA)) < 3

\* ------------------------------------------------------------ the matcher
\* A distance is counted in hundredths: 60 is the 0.6 that test_simulation.py
\* passes as tolerance and that face_recognition.compare_faces has as default.
TOLERANCE == 60

\* Entries in the gallery of one recognition.
MaxGallery == 3

\* The distances a probe may have to a gallery entry: below, at and above the
\* tolerance.
Distances == {TOLERANCE - 1, TOLERANCE, TOLERANCE + 1}

\* The names load_encodings may have given the gallery entries.
ClassNames == { <<"a">>, <<"b">> }

\* Python's str.upper().
UpperChar(c) ==
    CASE c = "a" -> "A"
      [] c = "b" -> "B"
      [] c = "c" -> "C"
      [] OTHER -> c

upper(s) == [i \in 1..Len(s) |-> UpperChar(s[i])]

\* face_recognition.compare_faces(known, probe, tolerance), given the distances
\* face_recognition.face_distance(known, probe): one flag per gallery entry,
\* list(face_distance(known, probe) <= tolerance).
compare_faces(faceDis, tolerance) ==
    [i \in 1..Len(faceDis) |-> faceDis[i] <= tolerance]

\* (mutant) the last of the smallest elements.
argminLast(a) ==
    CHOOSE i \in 1..Len(a) :
        /\ \A j \in 1..Len(a) : a[i] <= a[j]
        /\ \A j \in (i + 1)..Len(a) : a[j] > a[i]

\* numpy.argmin of a non-empty array: the first of the smallest elements.
argmin(a) ==
    CHOOSE i \in 1..Len(a) :
        /\ \A j \in 1..Len(a) : a[i] <= a[j]
        /\ \A j \in 1..(i - 1) : a[j] > a[i]

Matched(i, name) == [kind |-> "Match", index |-> i, name |-> name]
UnknownFace == [kind |-> "Unknown", index |-> 0, name |-> <<>>]
NoMatch == [kind |-> "NoMatch", index |-> 0, name |-> <<>>]
Raised == [kind |-> "Raised", index |-> 0, name |-> <<>>]

\* The decision all four paths share:
\*   matches = compare_faces(known, probe); faceDis = face_distance(known, probe)
\*   matchIndex = np.argmin(faceDis)        (ValueError on an empty array)
\*   if matches[matchIndex]: name = names[matchIndex] ... else: unknown
Decide(names, faceDis) ==
    IF faceDis = <<>> THEN Raised
    ELSE LET matches == compare_faces(faceDis, TOLERANCE)
             matchIndex == argmin(faceDis)
         IN  IF matches[matchIndex]
             THEN Matched(matchIndex, names[matchIndex])
             ELSE UnknownFace

Upper(res) ==
    IF res.kind = "Match" THEN [res EXCEPT !.name = upper(res.name)] ELSE res

\* app.py, simple mode: "System has no registered users yet." and no
\* recognition when the gallery is empty.
MatchSimple(names, faceDis) ==
    IF names = <<>> THEN NoMatch ELSE Upper(Decide(names, faceDis))

\* app.py, FaceRecognitionProcessor.transform.
MatchTransform(names, faceDis) == Upper(Decide(names, faceDis))

\* main.py, the camera loop.
MatchLoop(names, faceDis) == Upper(Decide(names, faceDis))

\* test_simulation.py: the name is used as loaded.
MatchSim(names, faceDis) == Decide(names, faceDis)

Paths == {"simple", "transform", "loop", "sim"}

recognise(path, names, faceDis) ==
    CASE path = "simple" -> MatchSimple(names, faceDis)
      [] path = "transform" -> MatchTransform(names, faceDis)
      [] path = "loop" -> MatchLoop(names, faceDis)
      [] path = "sim" -> MatchSim(names, faceDis)

\* The galleries a path can meet.  main.py starts its loop whatever it loaded
\* and app.py's simple mode runs on whatever load_encodings returned; the
\* processor is only built when the gallery is not empty (app.py 317-318), and
\* test_simulation.py has found the face of its probe image in the gallery
\* folder first.
Galleries(path) ==
    {n \in 0..MaxGallery : n > 0 \/ path \in {"simple", "loop"}}

Probes ==
    UNION { UNION { [path : {p}, names : [1..n -> ClassNames],
                     faceDis : [1..n -> Distances], res : {NoResult},
                     again : {NoResult}] :
                    n \in Galleries(p) } : p \in Paths }

\* One face of one image or frame is recognised.
Recognise ==
    /\ mt.res = NoResult
    /\ mt' = [mt EXCEPT !.res = recognise(mt.path, mt.names, mt.faceDis)]
    /\ UNCHANGED <<exists, file, proc, hist, corrupted, reg, prc, loop, clock,
                   marks, eq>>

\* The same face is recognised once more, against the same gallery.
RecogniseAgain ==
    /\ mt.res # NoResult
    /\ mt.again = NoResult
    /\ mt' = [mt EXCEPT !.again = recognise(mt.path, mt.names, mt.faceDis)]
    /\ UNCHANGED <<exists, file, proc, hist, corrupted, reg, prc, loop, clock,
                   marks, eq>>

InitMatch ==
    /\ LedgerInit
    /\ mt \in Probes
    /\ reg = NoRegistry
    /\ prc = NoProcessor
    /\ loop = NoLoop
    /\ clock = 0
    /\ marks = {}
    /\ eq = NotCompared

NextMatch == Recognise \/ RecogniseAgain

SpecMatch == InitMatch /\ [][NextMatch]_vars

\* The smallest distance of a non-empty probe.
MinDistance == mt.faceDis[argmin(mt.faceDis)]

Recognised == mt.res # NoResult

\* C11: with a non-empty gallery the matcher accepts the entry of smallest
\* distance if and only if that distance is strictly below the threshold; a
\* smallest distance equal to the threshold gives Unknown.
C11_StrictThreshold ==
    (Recognised /\ mt.names # <<>>) =>
        /\ mt.res.kind \in {"Match", "Unknown"}
        /\ mt.res.kind = "Match" <=> MinDistance < TOLERANCE
        /\ mt.res.kind = "Match" => mt.faceDis[mt.res.index] = MinDistance


\* C12: on an empty gallery every path reports the outcome of its own for
\* "no one is registered": never Unknown, never an exception.
C12_EmptyGalleryNoMatch ==
    (Recognised /\ mt.names = <<>>) => mt.res.kind = "NoMatch"

\* The places of the gallery at the smallest distance from the probe.
Nearest == {i \in 1..Len(mt.faceDis) : mt.faceDis[i] = MinDistance}

\* The name a path reports for gallery entry i.
Reported(i) ==
    IF mt.path = "sim" THEN mt.names[i] ELSE upper(mt.names[i])

\* C13: when several gallery entries lie at the smallest distance and the
\* probe is accepted, the result is the entry of smallest gallery index, and
\* recognising the same probe against the same gallery again gives the same
\* result.
C13_TieBreakFirst ==
    /\ (Recognised /\ mt.res.kind = "Match") =>
           /\ mt.res.index \in Nearest
           /\ \A i \in Nearest : mt.res.index <= i
           /\ mt.res.name = Reported(mt.res.index)
    /\ mt.again # NoResult => mt.again = mt.res

\* Two entries of different names tie at the smallest distance; the first of
\* them was reported, twice.
C13_Witness ==
    /\ mt.res.kind = "Match"
    /\ mt.again = mt.res
    /\ \E i, j \in Nearest : i < j /\ mt.names[i] # mt.names[j]
    /\ mt.res.name = Reported(mt.res.index)
    /\ mt.res.index = 1

\* ------------------------------------------------------------ one whole call
\* A call of a ledger function from its first line to its return, when no
\* other call runs meanwhile.  A store is Attendance.csv: whether it exists,
\* and its text.  The fault names the file operation that fails if the call
\* comes to it: the open(filename, 'w') that creates the file, the read, or
\* the open(filename, 'a') and write of the entry.
Faults == {"none", "create", "read", "append"}

Stores == { [exists |-> FALSE, file |-> <<>>], [exists |-> TRUE, file |-> Header] }

Outcome(st, ret) == [exists |-> st.exists, file |-> st.file, ret |-> ret]

\* if not os.path.exists(filename): open(filename, 'w').write("Name,Time,Date")
Created(st) == IF st.exists THEN st ELSE [exists |-> TRUE, file |-> Header]

Appended(st, name, now) == [st EXCEPT !.file = @ \o FormatEntry(name, now)]

\* (mutant) main.markAttendance with a duplicate test that leaves out the date.
markAttendanceNameOnly(st, name, now, fault) ==
    IF ~st.exists /\ fault = "create" THEN Outcome(st, "RAISED")
    ELSE LET s1 == Created(st)
             lines == IF fault = "read" THEN <<>> ELSE readlines(s1.file)
         IN  IF \E k \in 1..Len(lines) :
                    LineMatchesNameOnly(lines[k], name, today_str(now))
             THEN Outcome(s1, "ALREADY_LOGGED")
             ELSE IF fault = "append" THEN Outcome(s1, "ERROR")
             ELSE Outcome(Appended(s1, name, now), "MARKED")

\* app.mark_attendance: the read is guarded by `except FileNotFoundError`
\* only, the append by nothing.
mark_attendance(st, name, now, fault) ==
    IF ~st.exists /\ fault = "create" THEN Outcome(st, "RAISED")
    ELSE LET s1 == Created(st) IN
         IF fault = "read" THEN Outcome(s1, "RAISED")
         ELSE IF AlreadyLogged(readlines(s1.file), name, today_str(now))
         THEN Outcome(s1, "Already Marked")
         ELSE IF fault = "append" THEN Outcome(s1, "RAISED")
         ELSE Outcome(Appended(s1, name, now), "Marked")

\* main.markAttendance: a failed read is caught by the bare `except` and
\* leaves lines = []; a failed append returns "ERROR".
markAttendance(st, name, now, fault) ==
    IF ~st.exists /\ fault = "create" THEN Outcome(st, "RAISED")
    ELSE LET s1 == Created(st)
             lines == IF fault = "read" THEN <<>> ELSE readlines(s1.file)
         IN  IF AlreadyLogged(lines, name, today_str(now))
             THEN Outcome(s1, "ALREADY_LOGGED")
             ELSE IF fault = "append" THEN Outcome(s1, "ERROR")
             ELSE Outcome(Appended(s1, name, now), "MARKED")

\* The store a call leaves.
StoreOf(out) == [exists |-> out.exists, file |-> out.file]

\* ------------------------------------------------------------ side by side
\* Both functions are given the same calls, each on a store of its own; the
\* two stores begin alike.
EquivStart(st) == [NotCompared EXCEPT !.app = st, !.main = st]

BothCalled(name, now, fault) ==
    /\ eq.calls < MaxCalls
    /\ LET a == mark_attendance(eq.app, name, now, fault)
           m == markAttendance(eq.main, name, now, fault)
       IN  eq' = [app |-> StoreOf(a), main |-> StoreOf(m),
                  retApp |-> a.ret, retMain |-> m.ret,
                  calls |-> eq.calls + 1,
                  faults |-> eq.faults \cup ({fault} \ {"none"})]
    /\ UNCHANGED <<exists, file, proc, hist, corrupted, mt, reg, prc, loop,
                   clock, marks>>

InitEquiv ==
    /\ exists = FALSE
    /\ file = <<>>
    /\ proc = [p \in Procs |-> IdleProc]
    /\ hist = <<>>
    /\ corrupted = <<>>
    /\ mt = NoProbe
    /\ reg = NoRegistry
    /\ prc = NoProcessor
    /\ loop = NoLoop
    /\ clock = 0
    /\ marks = {}
    /\ \E st \in Stores : eq = EquivStart(st)

NextEquiv == \E name \in Names, now \in Timestamps, fault \in Faults :
                 BothCalled(name, now, fault)

SpecEquiv == InitEquiv /\ [][NextEquiv]_vars

\* "Marked" with "MARKED", "Already Marked" with "ALREADY_LOGGED".
Corresponding(retApp, retMain) ==
    \/ retApp = "none" /\ retMain = "none"
    \/ retApp = "Marked" /\ retMain = "MARKED"
    \/ retApp = "Already Marked" /\ retMain = "ALREADY_LOGGED"

SameAfterCall ==
    /\ eq.app = eq.main
    /\ Corresponding(eq.retApp, eq.retMain)

USCORE == "_"

\* The letters of the names typed at registration; every other character
\* of a typed name here is a blank, an underscore or "!".
Letters == {"a", "b", "c"}

\* Python's str.isalnum(), of one character.
isalnum(c) == c \in Letters

\* Python's s.replace(old, new), for single characters.
replace(s, old, new) == [i \in 1..Len(s) |-> IF s[i] = old THEN new ELSE s[i]]

\* "".join([c for c in new_user_name if c.isalnum() or c in (' ', '_')])
\*    .strip().replace(" ", "_")
Kept(c) == isalnum(c) \/ c \in {SPACE, USCORE}

safe_name(typed) == replace(strip(SelectSeq(typed, Kept)), SPACE, USCORE)

\* What a user may type as the name to register.
TypedNames ==
    { <<"a", SPACE, "b">>, <<"a", USCORE, "b">>, <<"a", USCORE, "c">>,
      <<"b", "!">> }

\* Registrations in one behaviour.
MaxRegistrations == 2

\* A profile image in Images_Attendance: the file name without ".jpg"; the
\* registration that wrote it (0: it was there from the start); whether
\* face_recognition.face_encodings finds a face in it.
Images == [base : {safe_name(t) : t \in TypedNames},
           shot : 0..MaxRegistrations, face : BOOLEAN]

\* cv2.imwrite(f"{PATH_IMAGES}/{safe_name}.jpg", ...): a file of that name is
\* overwritten.
Saved(folder, im) == {f \in folder : f.base # im.base} \cup {im}

\* app.load_encodings:
\*   name_base.split('_')[0] if '_' in name_base else name_base
CleanApp(base) ==
    IF \E i \in 1..Len(base) : base[i] = USCORE
    THEN split(base, USCORE)[1]
    ELSE base

\* The words main.py takes for a direction at the end of a file name.
Keywords == {"front", "side", "down", "up", "left", "right", "profile"}

\* "_".join(parts)
RECURSIVE JoinParts(_)
JoinParts(parts) ==
    IF Len(parts) = 0 THEN <<>>
    ELSE IF Len(parts) = 1 THEN parts[1]
    ELSE parts[1] \o <<USCORE>> \o JoinParts(Tail(parts))

\* main.py's name cleaning: the last part of the file name is dropped when
\* it holds a direction word (a direction word is one unit of the text).
CleanMain(base) ==
    IF \E i \in 1..Len(base) : base[i] = USCORE
    THEN LET parts == split(base, USCORE)
             last_part == parts[Len(parts)]
         IN  IF \E i \in 1..Len(last_part) : last_part[i] \in Keywords
             THEN JoinParts(SubSeq(parts, 1, Len(parts) - 1))
             ELSE base
    ELSE base

\* The images a loader makes an entry of: those a face is found in.
Encodable(folder) == {im \in folder : im.face}

\* os.listdir: the files in some order.
Orders(S) ==
    {o \in [1..Cardinality(S) -> S] :
        \A i, j \in 1..Cardinality(S) : i # j => o[i] # o[j]}

\* A gallery entry: the name, and the image its encoding was made of.
Entry(name, im) == [name |-> name, base |-> im.base, shot |-> im.shot]

\* (encodings_list, names_list) of app.load_encodings for the files in order o.
AppGallery(o) == [i \in 1..Len(o) |-> Entry(CleanApp(o[i].base), o[i])]

\* (known_face_encodings, known_face_names) of main.py for the files in order o.
MainGallery(o) == [i \in 1..Len(o) |-> Entry(CleanMain(o[i].base), o[i])]

\* What load_encodings() may return: the cached value if there is one, else
\* a gallery made of the folder (which @st.cache_resource then keeps).
Loads ==
    IF reg.cache # <<>> THEN {reg.cache[1]}
    ELSE {AppGallery(o) : o \in Orders(Encodable(reg.folder))}

\* A face in front of the camera: its eye aspect ratio in hundredths, and
\* the profile image it is the face of (FarFace: of none).
FarFace == <<"x">>

\* face_recognition.face_distance(known, face): the face lies within the
\* tolerance of the encodings made of its own profile images and of no other.
face_distance(known, face) ==
    [i \in 1..Len(known) |->
        IF known[i].base = face.of THEN TOLERANCE - 1 ELSE TOLERANCE + 1]

GalleryNames(known) == [i \in 1..Len(known) |-> known[i].name]

\* FaceRecognitionProcessor.__init__
NewProcessor(known) == [NoProcessor EXCEPT !.built = TRUE, !.known = known]

\* The check-in last served: the gallery it used and the folder as it then was
\* (kept for the claims; not a variable of the program).
ServedBy(known, folder) == << [used |-> known, folder |-> folder] >>

\* Register New User, "Save Profile" pressed: the image is written and the
\* cache of load_encodings cleared.
Register(typed, face) ==
    /\ reg.count < MaxRegistrations
    /\ reg' = [reg EXCEPT
                  !.folder = Saved(@, [base |-> safe_name(typed),
                                        shot |-> reg.count + 1,
                                        face |-> face]),
                  !.cache = <<>>,
                  !.count = @ + 1]
    /\ UNCHANGED <<exists, file, proc, hist, corrupted, mt, prc, loop, clock,
                   marks, eq>>

\* Check In, simple mode, with a photo of one face: the gallery is loaded,
\* the face recognised and, if matched, marked.
CheckInSimple(face, now) ==
    \E known \in Loads :
        LET res == MatchSimple(GalleryNames(known), face_distance(known, face))
            out == IF res.kind = "Match"
                   THEN mark_attendance([exists |-> exists, file |-> file],
                                        res.name, now, "none")
                   ELSE Outcome([exists |-> exists, file |-> file], "none")
        IN  /\ reg' = [reg EXCEPT !.cache = <<known>>,
                                   !.served = ServedBy(known, reg.folder)]
            /\ exists' = out.exists
            /\ file' = out.file
            /\ UNCHANGED <<proc, hist, corrupted, mt, prc, loop, clock, marks,
                           eq>>

\* Check In, real-time mode: the gallery is loaded and, unless it is empty,
\* the stream started, which builds the processor (its __init__ finds the
\* gallery in the cache).
StartProcessor ==
    /\ ~prc.built
    /\ \E known \in Loads :
        /\ reg' = [reg EXCEPT !.cache = <<known>>]
        /\ prc' = IF known = <<>> THEN prc ELSE NewProcessor(known)
    /\ UNCHANGED <<exists, file, proc, hist, corrupted, mt, loop, clock,
                   marks, eq>>

\* ------------------------------------------------------------ liveness
\* The eye aspect ratio is counted in hundredths: 25 is 0.25.  Times are in
\* seconds.
EYE_AR_THRESH == 25
EYE_AR_CONSEC_FRAMES == 2
LIVENESS_TIMEOUT == 5
STRANGER_COOLDOWN_SECONDS == 5

\* Frames in one behaviour.
MaxFrames == 3

\* The eye aspect ratios a face may show: eyes closed, eyes open (the
\* threshold itself counts as open).
EarValues == {EYE_AR_THRESH - 1, EYE_AR_THRESH}

\* The seconds that may pass between two frames.
Ticks == {0, LIVENESS_TIMEOUT, LIVENESS_TIMEOUT + 1}

\* A face with its eyes closed, and one with its eyes open.
ClosedFace(of) == [ear |-> EYE_AR_THRESH - 1, of |-> of]
OpenFace(of) == [ear |-> EYE_AR_THRESH, of |-> of]

Closed(face) == face.ear < EYE_AR_THRESH

\* The liveness logic both programs run over the faces of a frame while
\* liveness is not verified at the start of the frame:
\*   if avgEAR < EYE_AR_THRESH: COUNTER += 1
\*   else:
\*       if COUNTER >= EYE_AR_CONSEC_FRAMES: LIVENESS_VERIFIED = True (...)
\*       COUNTER = 0
\* s holds the counter, the flag and the number of blinks counted.
RECURSIVE BlinkScan(_, _)
BlinkScan(faces, s) ==
    IF faces = <<>> THEN s
    ELSE BlinkScan(Tail(faces),
            IF Closed(Head(faces))
            THEN [s EXCEPT !.counter = @ + 1]
            ELSE IF s.counter >= EYE_AR_CONSEC_FRAMES
                 THEN [s EXCEPT !.verified = TRUE, !.blinks = @ + 1,
                                !.counter = 0]
                 ELSE [s EXCEPT !.counter = 0])

\* For the claims (no variable of the program): the frames on end, up to
\* this one, in which the liveness logic saw closed eyes.
ClosedRunAfter(run, faces) ==
    IF \E i \in 1..Len(faces) : Closed(faces[i]) THEN run + 1 ELSE 0

\* For the claims: the frames on end in which closed eyes had been seen when
\* a blink was counted in this frame.
ClosedRunAtBlink(run, faces) ==
    IF \E i \in 1..Len(faces) : Closed(faces[i]) THEN run + 1 ELSE run

\* A call of the marking function from a frame: which path made it, for
\* whom, the liveness flag when it was made, and whether more than
\* LIVENESS_TIMEOUT seconds had passed since the last blink or override.
Mark(path, name, verified, age) ==
    [path |-> path, name |-> name, verified |-> verified,
     late |-> age > LIVENESS_TIMEOUT]

\* ------------------------------------------------------------ main.py, the loop
\* main.py after its images are loaded, before the first frame.
NewLoop(known) ==
    [NoLoop EXCEPT !.started = TRUE, !.running = TRUE, !.known = known]

\* last_attendance_status[name] = text
StatusSet(status, name, text) ==
    {e \in status : e.name # name} \cup {[name |-> name, text |-> text]}

StatusText(ret) ==
    CASE ret = "MARKED" -> "SUCCESS"
      [] ret = "ALREADY_LOGGED" -> "INFO"
      [] ret = "ERROR" -> "ERROR"

\* (mutant) whether the loop marks a recognised face: always.
MarksWhenAlways(verified) == TRUE

\* Whether the loop marks a recognised face: `if LIVENESS_VERIFIED:`
MarksWhen(verified) == verified

\* The recognition logic of the loop over the faces of a frame.  acc holds
\* the store, the marking calls made, the status messages, the time of the
\* last stranger photo and whether np.argmin raised.
RECURSIVE RecogniseLoop(_, _, _, _, _, _)
RecogniseLoop(faces, known, verified, now, stamp, acc) ==
    IF faces = <<>> \/ acc.raised THEN acc
    ELSE LET res == MatchLoop(GalleryNames(known),
                              face_distance(known, Head(faces)))
             out == markAttendance(acc.store, res.name, stamp, "none")
             next ==
                IF res.kind = "Raised" THEN [acc EXCEPT !.raised = TRUE]
                ELSE IF res.kind = "Match"
                THEN IF MarksWhen(verified)
                     THEN [acc EXCEPT
                             !.store = StoreOf(out),
                             !.marks = @ \cup {Mark("loop", res.name, verified,
                                                    now - acc.blinkTime)},
                             !.status = StatusSet(@, res.name,
                                                  StatusText(out.ret))]
                     ELSE acc
                ELSE IF now - acc.strangerTime > STRANGER_COOLDOWN_SECONDS
                     THEN [acc EXCEPT !.strangerTime = now]
                     ELSE acc
         IN  RecogniseLoop(Tail(faces), known, verified, now, stamp, next)

\* One turn of `while True:` with a frame read: the key pressed, the faces
\* in the frame, the seconds since the frame before, and what datetime.now()
\* shows.
MainFrame(key, faces, dt, stamp) ==
    /\ loop.running
    /\ loop.frames < MaxFrames
    /\ LET now == clock + dt
           \* the keys 'o' and 'c'
           v0 == IF key = "c" THEN FALSE
                 ELSE IF key = "o" THEN TRUE ELSE loop.LIVENESS_VERIFIED
           t0 == IF key = "o" THEN now ELSE loop.last_blink_time
           \* the liveness logic
           scan == BlinkScan(faces, [counter |-> loop.COUNTER,
                                     verified |-> FALSE, blinks |-> 0])
           v1 == IF ~v0 THEN scan.verified
                 ELSE ~(now - t0 > LIVENESS_TIMEOUT)
           t1 == IF ~v0 /\ scan.verified THEN now ELSE t0
           acc == RecogniseLoop(faces, loop.known, v1, now, stamp,
                     [store |-> [exists |-> exists, file |-> file],
                      marks |-> marks,
                      status |-> loop.last_attendance_status,
                      strangerTime |-> loop.last_stranger_save_time,
                      blinkTime |-> t1,
                      raised |-> FALSE])
       IN  IF key = "q"
           THEN /\ loop' = [loop EXCEPT !.running = FALSE, !.frames = @ + 1]
                /\ clock' = now
                /\ UNCHANGED <<exists, file, marks>>
           ELSE /\ loop' = [loop EXCEPT
                    !.running = ~acc.raised,
                    !.COUNTER = IF ~v0 THEN scan.counter ELSE @,
                    !.TOTAL_BLINKS = IF ~v0 THEN @ + scan.blinks ELSE @,
                    !.LIVENESS_VERIFIED = v1,
                    !.last_blink_time = t1,
                    !.last_stranger_save_time = acc.strangerTime,
                    !.last_attendance_status = acc.status,
                    !.frames = @ + 1,
                    !.closedRun = IF ~v0 THEN ClosedRunAfter(@, faces) ELSE 0,
                    !.blinkRun = IF ~v0 /\ scan.verified
                                 THEN ClosedRunAtBlink(loop.closedRun, faces)
                                 ELSE @,
                    !.byBlink = @ \/ (~v0 /\ scan.verified)]
                /\ clock' = now
                /\ exists' = acc.store.exists
                /\ file' = acc.store.file
                /\ marks' = acc.marks
    /\ UNCHANGED <<proc, hist, corrupted, mt, reg, prc, eq>>

\* ------------------------------------------------------------ app.py, transform
\* The recognition logic of transform over the faces of a frame.
RECURSIVE RecogniseTransform(_, _, _, _, _, _)
RecogniseTransform(faces, known, verified, now, stamp, acc) ==
    IF faces = <<>> \/ acc.raised THEN acc
    ELSE LET res == MatchTransform(GalleryNames(known),
                                   face_distance(known, Head(faces)))
             out == mark_attendance(acc.store, res.name, stamp, "none")
             next ==
                IF res.kind = "Raised" THEN [acc EXCEPT !.raised = TRUE]
                ELSE IF res.kind = "Match"
                THEN [acc EXCEPT
                        !.store = StoreOf(out),
                        !.marks = @ \cup {Mark("transform", res.name,
                                               verified, now - acc.blinkTime)}]
                ELSE acc
         IN  RecogniseTransform(Tail(faces), known, verified, now, stamp,
                                next)

\* Whether transform runs the recognition logic: `if self.liveness_verified:`
RecognisesWhen(verified) == verified

\* FaceRecognitionProcessor.transform on one frame.
TransformFrame(faces, dt, stamp) ==
    /\ prc.built
    /\ prc.frames < MaxFrames
    /\ LET now == clock + dt
           v0 == prc.liveness_verified
           scan == BlinkScan(faces, [counter |-> prc.blink_counter,
                                     verified |-> FALSE, blinks |-> 0])
           v1 == IF ~v0 THEN scan.verified ELSE TRUE
           t1 == IF ~v0 /\ scan.verified THEN now ELSE prc.blinkTime
           start == [store |-> [exists |-> exists, file |-> file],
                     marks |-> marks, blinkTime |-> t1, raised |-> FALSE]
           acc == IF RecognisesWhen(v1)
                  THEN RecogniseTransform(faces, prc.known, v1, now, stamp,
                                          start)
                  ELSE start
       IN  /\ prc' = [prc EXCEPT
                    !.blink_counter = IF ~v0 THEN scan.counter ELSE @,
                    !.liveness_verified = v1,
                    !.frames = @ + 1,
                    !.closedRun = IF ~v0 THEN ClosedRunAfter(@, faces) ELSE 0,
                    !.blinkRun = IF ~v0 /\ scan.verified
                                 THEN ClosedRunAtBlink(prc.closedRun, faces)
                                 ELSE @,
                    !.byBlink = @ \/ (~v0 /\ scan.verified),
                    !.blinkTime = t1]
           /\ clock' = now
           /\ exists' = acc.store.exists
           /\ file' = acc.store.file
           /\ marks' = acc.marks
           /\ reg' = IF RecognisesWhen(v1) /\ faces # <<>>
                     THEN [reg EXCEPT !.served = ServedBy(prc.known, reg.folder)]
                     ELSE reg
    /\ UNCHANGED <<proc, hist, corrupted, mt, loop, eq>>

\* ------------------------------------------------------------ registration and check-in
\* What datetime.now() shows while frames and photos are taken.
FrameStamps == {t \in Timestamps : t.day = 1 /\ t.tod = 1}

\* The faces a photo or frame may show where users register: the face of a
\* registered profile, or a stranger's.
GalleryBases == {safe_name(t) : t \in {<<"a", USCORE, "b">>, <<"b", "!">>}}

GalleryFaces == [ear : EarValues, of : GalleryBases]

InitGallery ==
    /\ LedgerInit
    /\ mt = NoProbe
    /\ reg = NoRegistry
    /\ prc = NoProcessor
    /\ loop = NoLoop
    /\ clock = 0
    /\ marks = {}
    /\ eq = NotCompared

Registers == \E typed \in TypedNames, face \in BOOLEAN : Register(typed, face)

ChecksIn ==
    \E face \in GalleryFaces, now \in FrameStamps : CheckInSimple(face, now)

\* The stream shows one face at a time.
Transforms ==
    \E face \in GalleryFaces, now \in FrameStamps :
        TransformFrame(<<face>>, 0, now)

NextGallery == Registers \/ ChecksIn \/ StartProcessor \/ Transforms

SpecGallery == InitGallery /\ [][NextGallery]_vars

\* The galleries in use: the cached one and the processor's.
GalleriesInUse ==
    {reg.cache[i] : i \in 1..Len(reg.cache)} \cup
    (IF prc.built THEN {prc.known} ELSE {})

\* C14: no two entries of a gallery carry the same name.
C14_OneEntryPerName ==
    \A g \in GalleriesInUse :
        \A i, j \in 1..Len(g) : g[i].name = g[j].name => i = j


\* The entries of a gallery, and the entries load_encodings makes of a folder.
EntriesOf(known) == {known[i] : i \in 1..Len(known)}

RebuiltFrom(folder) == {Entry(CleanApp(im.base), im) : im \in Encodable(folder)}

\* The gallery a check-in used is the one the folder gives when the check-in
\* is made.
ServedFresh ==
    \A i \in 1..Len(reg.served) :
        EntriesOf(reg.served[i].used) = RebuiltFrom(reg.served[i].folder)

\* The gallery a check-in used has an entry for every image registered.
ServedComplete ==
    \A i \in 1..Len(reg.served) :
        \A im \in reg.served[i].folder :
            im.shot > 0 =>
                \E e \in EntriesOf(reg.served[i].used) :
                    e.base = im.base /\ e.shot = im.shot

\* C15: every check-in made after a registration uses a gallery rebuilt from
\* the image folder, with the newly registered person in it; none is served
\* from a gallery loaded before the registration, the processor's copy
\* included.
C15_CheckInUsesRebuiltGallery == ServedFresh /\ ServedComplete


\* ------------------------------------------------------------ the video paths
\* The profile image in the folder when a program starts, and the faces its
\* camera may see.
LiveFolder == { [base |-> <<"a", USCORE, "front">>, shot |-> 0, face |-> TRUE] }

Me == <<"a", USCORE, "front">>

\* No face; the registered face with eyes closed, and with eyes open; the
\* registered face and a stranger's, both with eyes closed; a stranger's
\* face with eyes open.
LiveFrames ==
    { <<>>,
      <<ClosedFace(Me)>>,
      <<OpenFace(Me)>>,
      <<ClosedFace(Me), ClosedFace(FarFace)>>,
      <<OpenFace(FarFace)>> }

Keys == {"none", "o", "c", "q"}

\* time.time() when the program starts: further from the epoch, where
\* last_blink_time and last_stranger_save_time start, than any timeout.
StartTime == LIVENESS_TIMEOUT + STRANGER_COOLDOWN_SECONDS + 1

\* Either main.py has loaded its images and is about to read its first
\* frame, or app.py runs.
InitLive ==
    /\ LedgerInit
    /\ mt = NoProbe
    /\ reg = [NoRegistry EXCEPT !.folder = LiveFolder]
    /\ prc = NoProcessor
    /\ \E started \in BOOLEAN :
           \E o \in Orders(Encodable(LiveFolder)) :
               loop = IF started THEN NewLoop(MainGallery(o)) ELSE NoLoop
    /\ clock = StartTime
    /\ marks = {}
    /\ eq = NotCompared

MainFrames ==
    \E key \in Keys, faces \in LiveFrames, dt \in Ticks, now \in FrameStamps :
        MainFrame(key, faces, dt, now)

StartsStream == ~loop.started /\ StartProcessor

TransformFrames ==
    \E faces \in LiveFrames, dt \in Ticks, now \in FrameStamps :
        TransformFrame(faces, dt, now)

NextLive == MainFrames \/ StartsStream \/ TransformFrames

SpecLive == InitLive /\ [][NextLive]_vars


\* The records in the ledger (the header row is no record).
LedgerRecords == IF exists THEN Len(StoredLines(file)) - 1 ELSE 0

\* C16: on the video paths the marking function is called only while the
\* liveness flag is true, and nothing is appended to the ledger but by such
\* a call.
C16_MarkOnlyWhenVerified ==
    /\ \A m \in marks : m.verified
    /\ LedgerRecords > 0 => marks # {}

\* The loop of main.py has counted a blink, after closed eyes in
\* EYE_AR_CONSEC_FRAMES frames, and marked the face it then recognised.
C16_Witness ==
    /\ loop.byBlink
    /\ loop.blinkRun >= EYE_AR_CONSEC_FRAMES
    /\ loop.LIVENESS_VERIFIED
    /\ \E m \in marks : m.path = "loop" /\ m.verified /\ m.name = <<"A">>
    /\ LedgerRecords = 1

\* C17: a blink is counted, and liveness verified by it, only after closed
\* eyes were seen in at least EYE_AR_CONSEC_FRAMES frames on end, however
\* many faces the frames show.
C17_BlinkNeedsClosedFrames ==
    /\ loop.byBlink => loop.blinkRun >= EYE_AR_CONSEC_FRAMES
    /\ prc.byBlink => prc.blinkRun >= EYE_AR_CONSEC_FRAMES

\* In main.py: after every frame the loop has processed, verified liveness
\* is at most LIVENESS_TIMEOUT seconds old.
LoopTimesOut ==
    (loop.running /\ loop.LIVENESS_VERIFIED) =>
        clock - loop.last_blink_time <= LIVENESS_TIMEOUT

\* The same of the FaceRecognitionProcessor.
ProcessorTimesOut ==
    prc.liveness_verified => clock - prc.blinkTime <= LIVENESS_TIMEOUT

\* C18: verified liveness lasts at most LIVENESS_TIMEOUT seconds, in the loop
\* of main.py and in the FaceRecognitionProcessor: the first frame processed
\* later than that resets it, and nobody is marked on a verification older
\* than that.
C18_VerifiedTimesOut ==
    /\ LoopTimesOut
    /\ ProcessorTimesOut
    /\ \A m \in marks : ~m.late
============================================================================
